---- MODULE Spec2Model ----
(***************************************************************************)
(* A model of nse_dashboard.py: the trade-plan generator, the top-movers   *)
(* ranking with the breakout filters of the page, and one Streamlit        *)
(* session running the script (cached fetch wrappers, the Refresh Now      *)
(* button and the auto-refresh check).                                     *)
(*                                                                         *)
(* Numbers.  A Python float is modelled as an exact rational counted in    *)
(* units of 1/2000000, or NaN; a cell of a table may also hold a value     *)
(* float() refuses ("bad": None, a non-numeric string).  One cent is       *)
(* 20000 units.  rr_ratio is counted in halves (rr2 = 2 * rr_ratio).       *)
(***************************************************************************)
EXTENDS Integers, Sequences, FiniteSets, TLC

VARIABLES
    \* ---- generate_trade_plan(df, direction, rr_ratio) ----
    df,             \* the input table: [cols, rows]
    direction,      \* "long" | "short"
    rr2,            \* 2 * rr_ratio
    idx,            \* index of the next row df.iterrows() yields
    plans,          \* the list `plans`
    planPc,         \* "loop" | "returned" | "raised"
    \* ---- get_top_movers(n) and the breakout filters ----
    members,        \* what get_nifty50_members() returned: [cols, rows]
    topN,           \* the argument n
    min_change,     \* sidebar slider, in tenths of a percent
    min_volume,     \* the caller's volume threshold (the page has no such control)
    gainers,        \* gainers_df
    losers,         \* losers_df
    gf,             \* rows handed to generate_trade_plan(gf, "long", ..)
    lf,             \* rows handed to generate_trade_plan(lf, "short", ..)
    movPc,          \* "call" | "gainers" | "long" | "losers" | "short" | "done" | "raised"
    \* ---- one Streamlit session running the script ----
    flaky,          \* the upstream endpoints that may fail during this session
    now,            \* datetime.now(), in seconds since the session opened
    pc,             \* where the script run stands; "idle" between runs
    first_run,      \* this is the run that found no last_refresh in the session state
    clicked,        \* st.button("Refresh Now") is True in this run
    opt_symbol,     \* sidebar selectbox "Option Chain Symbol"
    refresh_min,    \* sidebar slider "Auto-refresh (secs)"
    last_refresh,   \* st.session_state.last_refresh; -1 while absent
    fjCache,        \* the st.cache_data store of fetch_json, by url and params
    wCache,         \* the st.cache_data stores of the wrappers and of get_top_movers
    calls,          \* the wrapper calls of the latest step, with the requests each sent
    warmups,        \* requests to the site root sent so far (counted up to MaxCount)
    lastFailAt,     \* per wrapper, when its except branch (or empty fallback) last ran
    lastAutoAt      \* when auto_refresh last called st.experimental_rerun(); -1 if never

planVars == <<df, direction, rr2, idx, plans, planPc>>
movVars == <<members, topN, min_change, min_volume, gainers, losers, gf, lf, movPc>>
appVars == <<flaky, now, pc, first_run, clicked, opt_symbol, refresh_min,
             last_refresh, fjCache, wCache, calls, warmups, lastFailAt, lastAutoAt>>
vars == <<planVars, movVars, appVars>>

----------------------------------------------------------------------------
(* Floats *)

Cent == 20000

Num(v) == [k |-> "num", v |-> v]
NaN == [k |-> "nan", v |-> 0]
Bad == [k |-> "bad", v |-> 0]

\* a price given in thousandths
Milli(m) == Num(m * 2000)

IsNum(x) == x.k = "num"

\* float(x): raises on a value that is not a number
FloatRaises(x) == x.k = "bad"

FSub(a, b) == IF IsNum(a) /\ IsNum(b) THEN Num(a.v - b.v) ELSE NaN
FAdd(a, b) == IF IsNum(a) /\ IsNum(b) THEN Num(a.v + b.v) ELSE NaN

\* x * rr_ratio; NaN * 0 is NaN
FMulRR(a, r2) == IF IsNum(a) THEN Num((a.v * r2) \div 2) ELSE NaN

\* entry * 0.995 and entry * 1.005
FMul0995(a) == IF IsNum(a) THEN Num((a.v \div 1000) * 995) ELSE NaN
FMul1005(a) == IF IsNum(a) THEN Num((a.v \div 1000) * 1005) ELSE NaN

\* round(x, 2) of a number, in cents: round half to even
RoundCents(v) ==
    LET q == v \div Cent
        r == v % Cent
    IN  IF 2 * r < Cent THEN q
        ELSE IF 2 * r > Cent THEN q + 1
        ELSE IF q % 2 = 0 THEN q ELSE q + 1

\* round(x, 2): round(nan, 2) is nan
Round2(a) == IF IsNum(a) THEN [k |-> "num", v |-> RoundCents(a.v)] ELSE NaN

----------------------------------------------------------------------------
(* generate_trade_plan *)

\* row.get(col, default) on a row of a DataFrame
RowGet(t, row, col, default) == IF col \in t.cols THEN row[col] ELSE default

\* entry = float(row.get("lastPrice", row.get("underlying", 0)))
EntryCell(t, row) == RowGet(t, row, "lastPrice", RowGet(t, row, "underlying", Num(0)))

\* stop = float(row.get("dayLow", entry * 0.995)) / float(row.get("dayHigh", entry * 1.005))
StopCell(t, row, dir) ==
    IF dir = "long"
    THEN RowGet(t, row, "dayLow", FMul0995(EntryCell(t, row)))
    ELSE RowGet(t, row, "dayHigh", FMul1005(EntryCell(t, row)))

\* a variant that computes the target from the rounded entry and stop
TargetFromRounded(entry, stop, dir, r2) ==
    LET re == IF IsNum(entry) THEN Num(RoundCents(entry.v) * Cent) ELSE NaN
        rs == IF IsNum(stop) THEN Num(RoundCents(stop.v) * Cent) ELSE NaN
    IN  IF dir = "long"
        THEN FAdd(re, FMulRR(FSub(re, rs), r2))
        ELSE FSub(re, FMulRR(FSub(rs, re), r2))

\* target, from the unrounded entry and stop
Target(entry, stop, dir, r2) ==
    IF dir = "long"
    THEN FAdd(entry, FMulRR(FSub(entry, stop), r2))
    ELSE FSub(entry, FMulRR(FSub(stop, entry), r2))

\* the body of the try block for one row: an exception, or the plan appended
PlanOfRow(t, row, dir, r2) ==
    LET entry == EntryCell(t, row)
        stop == StopCell(t, row, dir)
    IN  IF FloatRaises(entry) \/ FloatRaises(stop)
        THEN [exc |-> TRUE, plan |-> <<>>]
        ELSE [exc |-> FALSE,
              plan |-> [symbol |-> row.symbol,
                        entry |-> Round2(entry),
                        stoploss |-> Round2(stop),
                        target |-> Round2(Target(entry, stop, dir, r2)),
                        risk_reward |-> r2]]

\* a variant without the except clause: the exception leaves the function
RowStepNoCatch(res, ps) ==
    IF res.exc
    THEN [plans |-> ps, pc |-> "raised"]
    ELSE [plans |-> Append(ps, res.plan), pc |-> "loop"]

\* try: ... plans.append(..)  except Exception: continue
RowStep(res, ps) ==
    IF res.exc
    THEN [plans |-> ps, pc |-> "loop"]
    ELSE [plans |-> Append(ps, res.plan), pc |-> "loop"]

\* for _, row in df.iterrows(): one iteration
PlanRow ==
    /\ planPc = "loop"
    /\ idx <= Len(df.rows)
    /\ LET st == RowStep(PlanOfRow(df, df.rows[idx], direction, rr2), plans)
       IN  /\ plans' = st.plans
           /\ planPc' = st.pc
    /\ idx' = idx + 1
    /\ UNCHANGED <<df, direction, rr2, appVars>>

\* return pd.DataFrame(plans)
PlanReturn ==
    /\ planPc = "loop"
    /\ idx > Len(df.rows)
    /\ planPc' = "returned"
    /\ UNCHANGED <<df, direction, rr2, idx, plans, appVars>>

----------------------------------------------------------------------------
(* The tables generate_trade_plan is run on *)

MaxRows == 2

LastPrices == {Milli(100000), Milli(100004), Bad}
DayLows == {Milli(98000), Milli(98006), Milli(100004), NaN, Bad}
DayHighs == {Milli(102000), NaN}
Underlyings == {Milli(50000)}
RRs == {0, 3, 4}

AllCols == {"symbol", "lastPrice", "underlying", "dayLow", "dayHigh"}
ColSets == {AllCols, {"symbol", "lastPrice"}, {"symbol", "underlying"}}

\* the cells of one row of a table with columns c (a column the table lacks
\* holds no cell: its field is fixed)
CellSet(c, col, S) == IF col \in c THEN S ELSE {Num(0)}

RowCells(c) ==
    [lastPrice : CellSet(c, "lastPrice", LastPrices),
     underlying : CellSet(c, "underlying", Underlyings),
     dayLow : CellSet(c, "dayLow", DayLows),
     dayHigh : CellSet(c, "dayHigh", DayHighs)]

WithSymbol(cells, i) ==
    [symbol |-> i, lastPrice |-> cells.lastPrice, underlying |-> cells.underlying,
     dayLow |-> cells.dayLow, dayHigh |-> cells.dayHigh]

\* the table with columns c whose rows hold the cells r[1], r[2], ..
PlanTable(c, r) == [cols |-> c, rows |-> [i \in DOMAIN r |-> WithSymbol(r[i], i)]]

EmptyTable == [cols |-> {}, rows |-> <<>>]

\* the variables of the page and of the session, where a specification does not use them
PageUnused ==
    /\ members = EmptyTable /\ topN = 0 /\ min_change = 0 /\ min_volume = 0
    /\ gainers = <<>> /\ losers = <<>> /\ gf = <<>> /\ lf = <<>> /\ movPc = "done"

AppUnused ==
    /\ flaky = {} /\ now = 0 /\ pc = "idle" /\ first_run = FALSE /\ clicked = FALSE
    /\ opt_symbol = "NIFTY" /\ refresh_min = 0
    /\ last_refresh = -1 /\ fjCache = <<>> /\ wCache = <<>> /\ calls = {}
    /\ warmups = 0 /\ lastFailAt = <<>> /\ lastAutoAt = -1

InitPlan ==
    /\ \E c \in ColSets : \E n \in 0..MaxRows : \E r \in [1..n -> RowCells(c)] :
          df = PlanTable(c, r)
    /\ direction \in {"long", "short"}
    /\ rr2 \in RRs
    /\ idx = 1
    /\ plans = <<>>
    /\ planPc = "loop"
    /\ PageUnused
    /\ AppUnused

NextPlan ==
    \/ PlanRow /\ UNCHANGED movVars
    \/ PlanReturn /\ UNCHANGED movVars

SpecPlan == InitPlan /\ [][NextPlan]_vars

----------------------------------------------------------------------------
(* get_top_movers and the breakout filters of the page *)

\* pd.DataFrame.empty: no rows or no columns
IsEmpty(t) == t.rows = <<>> \/ t.cols = {}

\* df.dropna(subset=["pChange"]): the rows whose pChange is not NaN, in order
DropNaPChange(rows) == SelectSeq(rows, LAMBDA r : IsNum(r.pChange))

Range(s) == {s[i] : i \in 1..Len(s)}

\* the orders df.sort_values("pChange", ascending=..) may produce: the default
\* sort is not stable, so rows of equal pChange come in any order
SortedByPChange(rows, ascending) ==
    {s \in [1..Len(rows) -> Range(rows)] :
        /\ Range(s) = Range(rows)
        /\ \A i \in 1..(Len(s) - 1) :
              IF ascending THEN s[i].pChange.v <= s[i + 1].pChange.v
                           ELSE s[i].pChange.v >= s[i + 1].pChange.v}

\* df.head(n), n >= 0
HeadN(s, n) == SubSeq(s, 1, IF n < Len(s) THEN n ELSE Len(s))

\* get_top_movers(n) on the table get_nifty50_members() returned
TopMovers ==
    /\ movPc = "call"
    /\ IF IsEmpty(members)
       THEN \* return pd.DataFrame(), pd.DataFrame()
            /\ gainers' = <<>> /\ losers' = <<>> /\ movPc' = "gainers"
       ELSE IF "pChange" \notin members.cols
       THEN \* dropna(subset=["pChange"]) raises KeyError; nothing catches it
            /\ movPc' = "raised" /\ UNCHANGED <<gainers, losers>>
       ELSE LET d == DropNaPChange(members.rows)
            IN  /\ \E g \in SortedByPChange(d, FALSE) : gainers' = HeadN(g, topN)
                /\ \E l \in SortedByPChange(d, TRUE) : losers' = HeadN(l, topN)
                /\ movPc' = "gainers"
    /\ UNCHANGED <<members, topN, min_change, min_volume, gf, lf, planVars, appVars>>

\* gf = gainers_df[gainers_df["pChange"] >= min_change]
GainersFilter(g, mc) == SelectSeq(g, LAMBDA r : IsNum(r.pChange) /\ r.pChange.v >= mc)

\* lf = losers_df[losers_df["pChange"] <= -min_change]
LosersFilter(l, mc) == SelectSeq(l, LAMBDA r : IsNum(r.pChange) /\ r.pChange.v <= -mc)

\* generate_trade_plan(rows, dir, rr_ratio) is entered
EnterPlan(rows, dir) ==
    /\ df' = [cols |-> members.cols, rows |-> rows]
    /\ direction' = dir
    /\ idx' = 1
    /\ plans' = <<>>
    /\ planPc' = "loop"
    /\ UNCHANGED rr2

\* the Gainers tab: the breakout filter and the call of the plan generator
GainersTab ==
    /\ movPc = "gainers"
    /\ gf' = GainersFilter(gainers, min_change)
    /\ IF gainers # <<>> /\ gf' # <<>>
       THEN movPc' = "long" /\ EnterPlan(gf', "long")
       ELSE movPc' = "losers" /\ UNCHANGED planVars
    /\ UNCHANGED <<members, topN, min_change, min_volume, gainers, losers, lf, appVars>>

\* tp_long is back
LongPlansShown ==
    /\ movPc = "long" /\ planPc = "returned"
    /\ movPc' = "losers"
    /\ UNCHANGED <<members, topN, min_change, min_volume, gainers, losers, gf, lf, planVars, appVars>>

\* the Losers tab: the breakdown filter and the call of the plan generator
LosersTab ==
    /\ movPc = "losers"
    /\ lf' = LosersFilter(losers, min_change)
    /\ IF losers # <<>> /\ lf' # <<>>
       THEN movPc' = "short" /\ EnterPlan(lf', "short")
       ELSE movPc' = "done" /\ UNCHANGED planVars
    /\ UNCHANGED <<members, topN, min_change, min_volume, gainers, losers, gf, appVars>>

\* tp_short is back
ShortPlansShown ==
    /\ movPc = "short" /\ planPc = "returned"
    /\ movPc' = "done"
    /\ UNCHANGED <<members, topN, min_change, min_volume, gainers, losers, gf, lf, planVars, appVars>>

MaxMembers == 3

\* pChange in tenths of a percent, after pd.to_numeric(errors='coerce')
PChanges == {Num(-25), Num(-20), Num(20), Num(25), NaN}
Volumes == {0, 1000}
MemberCols == {"symbol", "pChange", "lastPrice", "dayLow", "dayHigh", "totalTradedVolume"}
MemberColSets == {MemberCols, MemberCols \ {"pChange"}}

MemberRow(i, pch, vol) ==
    [symbol |-> i, pChange |-> pch, lastPrice |-> Milli(100000), dayLow |-> Milli(98000),
     dayHigh |-> Milli(102000), totalTradedVolume |-> vol]

\* the pChange cells of a table with columns c
PChangeCells(c) == IF "pChange" \in c THEN PChanges ELSE {NaN}

\* the members table with columns c whose rows hold the pairs r[1], r[2], ..
MemberTable(c, r) == [cols |-> c, rows |-> [i \in DOMAIN r |-> MemberRow(i, r[i][1], r[i][2])]]

InitPage ==
    /\ \E c \in MemberColSets : \E n \in 0..MaxMembers :
       \E r \in [1..n -> PChangeCells(c) \X Volumes] :
          members = MemberTable(c, r)
    /\ topN \in {1, 2, 15}
    /\ min_change \in {5, 20}
    /\ min_volume \in {500}
    /\ gainers = <<>> /\ losers = <<>> /\ gf = <<>> /\ lf = <<>>
    /\ movPc = "call"
    /\ df = EmptyTable /\ direction = "long" /\ rr2 = 4
    /\ idx = 1 /\ plans = <<>> /\ planPc = "returned"
    /\ AppUnused

NextPage ==
    \/ TopMovers
    \/ GainersTab
    \/ PlanRow /\ UNCHANGED movVars
    \/ PlanReturn /\ UNCHANGED movVars
    \/ LongPlansShown
    \/ LosersTab
    \/ ShortPlansShown

SpecPage == InitPage /\ [][NextPage]_vars

----------------------------------------------------------------------------
(* One Streamlit session: the cached fetchers, the page, the refresh logic *)

MaxTime == 80
MaxCount == 2

TTL_FETCH_JSON == 60
TTL_MEMBERS == 60
TTL_INDICES == 60
TTL_MOVERS == 60
TTL_SECTOR == 60
TTL_OPTION_CHAIN == 30

\* fetch_json's cache keys: the url with its params
Urls == {"allIndices", "nifty50", "sector", "oc_NIFTY", "oc_BANKNIFTY"}

\* the caches of the decorated functions, by function and arguments
WKeys == {"indices", "members", "movers", "sector", "oc_NIFTY", "oc_BANKNIFTY"}

\* the fetch wrappers, by function and arguments
CachedWrappers == {"indices", "members", "sector", "oc_NIFTY", "oc_BANKNIFTY"}
Wrappers == CachedWrappers \cup {"intraday"}

TTL(key) ==
    CASE key = "indices" -> TTL_INDICES
      [] key = "members" -> TTL_MEMBERS
      [] key = "movers" -> TTL_MOVERS
      [] key = "sector" -> TTL_SECTOR
      [] OTHER -> TTL_OPTION_CHAIN

NoEntry == [at |-> -1, val |-> "none"]

\* st.cache_data(ttl=..): an entry is served while younger than ttl
CacheHit(e, ttl, t) == e.at >= 0 /\ t - e.at < ttl

\* a variant that stores no failure: a failed call leaves the cache as it was
StoreUnlessFailed(old, val, t, failed) ==
    IF failed THEN old ELSE [at |-> t, val |-> val]

\* st.cache_data stores whatever the function returned
CacheStore(old, val, t, failed) == [at |-> t, val |-> val]

\* what one request to an NSE endpoint may bring:
\*   rows / norows   the JSON object holds the list, with or without entries
\*   partial         entries that lack fields the page reads (pChange, indexName, ..)
\*   nokey           a JSON object without the "data" / "records" field
\*   notdict         JSON that is no object (data.get raises AttributeError)
\*   bad_json        resp.json() raises
\*   http_error      resp.raise_for_status() raises
\*   conn_error, timeout   s.get raises
NseOutcomes == {"rows", "norows", "partial", "nokey", "notdict",
                "bad_json", "http_error", "conn_error", "timeout"}

\* an endpoint that is up answers with rows; a flaky one answers anything
NseAnswers(url) == IF url \in flaky THEN NseOutcomes ELSE {"rows"}

\* the outcomes on which fetch_json raises
Raises(out) == out \in {"bad_json", "http_error", "conn_error", "timeout"}

\* the ways a request fails
NseFailures == {"nokey", "notdict", "bad_json", "http_error", "conn_error", "timeout"}

\* fetch_json(url): served from its cache, or nse_session() (one request to the
\* site root, its failure ignored) and then one request to the endpoint
FetchJson(url, out) ==
    IF CacheHit(fjCache[url], TTL_FETCH_JSON, now)
    THEN [exc |-> FALSE, payload |-> fjCache[url].val, warm |-> 0, api |-> 0, hit |-> TRUE]
    ELSE [exc |-> Raises(out), payload |-> IF Raises(out) THEN "none" ELSE out,
          warm |-> 1, api |-> 1, hit |-> FALSE]

\* a variant of the wrappers without try/except
WrapResultNoCatch(r) ==
    IF r.exc \/ r.payload = "notdict" THEN "exc"
    ELSE IF r.payload \in {"norows", "nokey"} THEN "empty"
    ELSE IF r.payload = "rows" THEN "data" ELSE "partial"

\* the body of an NSE wrapper around fetch_json: the table it returns
WrapResult(r) ==
    IF r.exc \/ r.payload = "notdict" THEN "empty"
    ELSE IF r.payload \in {"norows", "nokey"} THEN "empty"
    ELSE IF r.payload = "rows" THEN "data" ELSE "partial"

\* one call of a cached NSE wrapper at time `now`; the requests take d seconds
NseCall(key, url, out, d) ==
    LET hitW == CacheHit(wCache[key], TTL(key), now)
        r == FetchJson(url, out)
        t == IF hitW \/ r.hit THEN now ELSE now + d
        failed == ~hitW /\ (r.exc \/ r.payload \in {"notdict", "nokey"})
        val == IF hitW THEN wCache[key].val ELSE WrapResult(r)
    IN  [rec |-> [w |-> key,
                  outcome |-> IF hitW \/ r.hit THEN "cached" ELSE out,
                  hit |-> hitW,
                  result |-> val,
                  warm |-> IF hitW THEN 0 ELSE r.warm,
                  api |-> IF hitW THEN 0 ELSE r.api],
         t |-> t,
         failed |-> failed,
         wentry |-> IF hitW \/ val = "exc" THEN wCache[key]
                    ELSE CacheStore(wCache[key], val, t, failed),
         fentry |-> IF hitW \/ r.hit \/ r.exc THEN fjCache[url]
                    ELSE [at |-> t, val |-> r.payload]]

\* expired entries leave the stores (they are never served again)
EvictW(cache, t) ==
    [k \in WKeys |-> IF cache[k].at >= 0 /\ t - cache[k].at >= TTL(k) THEN NoEntry ELSE cache[k]]

EvictF(cache, t) ==
    [u \in Urls |-> IF cache[u].at >= 0 /\ t - cache[u].at >= TTL_FETCH_JSON THEN NoEntry
                    ELSE cache[u]]

\* a failure older than the longest TTL is no longer remembered
Forget(fails, t) ==
    [w \in Wrappers |-> IF fails[w] >= 0 /\ t - fails[w] >= TTL_FETCH_JSON THEN -1 ELSE fails[w]]

SatAdd(c, k) == IF c + k > MaxCount THEN MaxCount ELSE c + k

\* how long a fetch takes, to the nearest 10 s: a request that runs into its
\* timeout (timeout=10) takes 10 s, any other answer comes at once
Durations(out) == {d \in (IF out = "timeout" THEN {10} ELSE {0}) : now + d <= MaxTime}

\* the effect of one wrapper call on the caches and counters
Apply(key, url, c) ==
    /\ now' = c.t
    /\ wCache' = EvictW([wCache EXCEPT ![key] = c.wentry], c.t)
    /\ fjCache' = EvictF([fjCache EXCEPT ![url] = c.fentry], c.t)
    /\ warmups' = SatAdd(warmups, c.rec.warm)
    /\ lastFailAt' = Forget(IF c.failed THEN [lastFailAt EXCEPT ![key] = c.t] ELSE lastFailAt, c.t)

sessionRest == <<flaky, first_run, clicked, opt_symbol, refresh_min>>

\* the two checkboxes of the sidebar stay ticked, as they start
ShowChoices == {TRUE}

\* lines 240-241: the first run of a session sets last_refresh
RunStart ==
    /\ pc = "init"
    /\ last_refresh' = IF last_refresh = -1 THEN now ELSE last_refresh
    /\ first_run' = (last_refresh = -1)
    /\ pc' = "indices"
    /\ calls' = {}
    /\ UNCHANGED <<flaky, now, clicked, opt_symbol, refresh_min, fjCache, wCache, warmups, lastFailAt, lastAutoAt>>

\* lines 246-266: get_indices_snapshot() and the index cards
Indices ==
    /\ pc = "indices"
    /\ \E show_indices \in ShowChoices :
       IF show_indices
       THEN \E out \in NseAnswers("allIndices") : \E d \in Durations(out) :
               LET c == NseCall("indices", "allIndices", out, d)
               IN  /\ Apply("indices", "allIndices", c)
                   /\ calls' = {c.rec}
                   \* idx_df['indexName'] raises KeyError on a table without it
                   /\ pc' = IF c.rec.result \in {"exc", "partial"} THEN "idle" ELSE "button"
       ELSE /\ pc' = "button" /\ calls' = {}
            /\ UNCHANGED <<now, fjCache, wCache, warmups, lastFailAt>>
    /\ UNCHANGED <<sessionRest, last_refresh, lastAutoAt>>

\* lines 269-271: the Refresh Now button
RefreshNow ==
    /\ pc = "button"
    /\ IF clicked
       THEN /\ last_refresh' = now
            /\ pc' = "init" /\ clicked' = FALSE
       ELSE /\ pc' = "movers"
            /\ UNCHANGED <<last_refresh, clicked>>
    /\ calls' = {}
    /\ UNCHANGED <<flaky, now, first_run, opt_symbol, refresh_min, fjCache, wCache, warmups,
                   lastFailAt, lastAutoAt>>

\* get_top_movers on the table get_nifty50_members() returned
MoversResult(membersVal) ==
    CASE membersVal = "empty" -> "empty"
      [] membersVal = "data" -> "data"
      [] OTHER -> "exc"   \* KeyError of dropna (partial), or the exception passed on

\* line 281: get_top_movers(n=15), which calls get_nifty50_members()
Movers ==
    /\ pc = "movers"
    /\ IF CacheHit(wCache["movers"], TTL_MOVERS, now)
       THEN /\ calls' = {[w |-> "movers", outcome |-> "cached", hit |-> TRUE,
                          result |-> wCache["movers"].val, warm |-> 0, api |-> 0]}
            /\ pc' = "sector"
            /\ UNCHANGED <<now, fjCache, wCache, warmups, lastFailAt>>
       ELSE \E out \in NseAnswers("nifty50") : \E d \in Durations(out) :
               LET c == NseCall("members", "nifty50", out, d)
                   res == MoversResult(c.rec.result)
               IN  /\ now' = c.t
                   /\ wCache' = EvictW([wCache EXCEPT
                         !["members"] = c.wentry,
                         !["movers"] = IF res = "exc" THEN @
                                       ELSE CacheStore(@, res, c.t, FALSE)], c.t)
                   /\ fjCache' = EvictF([fjCache EXCEPT !["nifty50"] = c.fentry], c.t)
                   /\ warmups' = SatAdd(warmups, c.rec.warm)
                   /\ lastFailAt' = Forget(IF c.failed
                                           THEN [lastFailAt EXCEPT !["members"] = c.t]
                                           ELSE lastFailAt, c.t)
                   /\ calls' = {c.rec,
                                [w |-> "movers", outcome |-> c.rec.outcome, hit |-> FALSE,
                                 result |-> res, warm |-> 0, api |-> 0]}
                   /\ pc' = IF res = "exc" THEN "idle" ELSE "sector"
    /\ UNCHANGED <<sessionRest, last_refresh, lastAutoAt>>

\* lines 313-322: get_sector_performance() and its chart
Sector ==
    /\ pc = "sector"
    /\ \E show_sector \in ShowChoices :
       IF show_sector
       THEN \E out \in NseAnswers("sector") : \E d \in Durations(out) :
               LET c == NseCall("sector", "sector", out, d)
               IN  /\ Apply("sector", "sector", c)
                   /\ calls' = {c.rec}
                   \* px.bar(x='sector', y='change') raises on a table without them
                   /\ pc' = IF c.rec.result \in {"exc", "partial"} THEN "idle" ELSE "optchain"
       ELSE /\ pc' = "optchain" /\ calls' = {}
            /\ UNCHANGED <<now, fjCache, wCache, warmups, lastFailAt>>
    /\ UNCHANGED <<sessionRest, last_refresh, lastAutoAt>>

OcKey(sym) == IF sym = "NIFTY" THEN "oc_NIFTY" ELSE "oc_BANKNIFTY"

\* lines 327-358: get_option_chain_index(opt_symbol)
OptionChain ==
    /\ pc = "optchain"
    /\ \E out \in NseAnswers(OcKey(opt_symbol)) : \E d \in Durations(out) :
          LET c == NseCall(OcKey(opt_symbol), OcKey(opt_symbol), out, d)
          IN  /\ Apply(OcKey(opt_symbol), OcKey(opt_symbol), c)
              /\ calls' = {c.rec}
              /\ pc' = IF c.rec.result = "exc" THEN "idle" ELSE "intraday"
    /\ UNCHANGED <<sessionRest, last_refresh, lastAutoAt>>

\* what ticker.history may bring; import_error: yfinance is not installed
YfOutcomes == {"rows", "norows", "partial", "import_error", "conn_error", "timeout"}
YfFailures == {"partial", "import_error", "conn_error", "timeout"}

\* a variant of fetch_intraday_yfinance without try/except
IntradayResultNoCatch(out) ==
    IF out = "rows" THEN "data" ELSE IF out = "norows" THEN "empty" ELSE "exc"

\* fetch_intraday_yfinance: the table it returns
IntradayResult(out) == IF out = "rows" THEN "data" ELSE "empty"

\* line 365: fetch_intraday_yfinance(sym), which no cache holds
Intraday ==
    /\ pc = "intraday"
    /\ \E out \in (IF "yfinance" \in flaky THEN YfOutcomes ELSE {"rows"}) :
       \E d \in Durations(out) :
          LET res == IntradayResult(out)
              t == IF out = "import_error" THEN now ELSE now + d
          IN  /\ now' = t
              /\ calls' = {[w |-> "intraday", outcome |-> out, hit |-> FALSE, result |-> res,
                            warm |-> 0, api |-> IF out = "import_error" THEN 0 ELSE 1]}
              /\ lastFailAt' = Forget(IF out \in YfFailures
                                      THEN [lastFailAt EXCEPT !["intraday"] = t]
                                      ELSE lastFailAt, t)
              /\ wCache' = EvictW(wCache, t)
              /\ fjCache' = EvictF(fjCache, t)
              /\ pc' = IF res = "exc" THEN "idle" ELSE "auto"
    /\ UNCHANGED <<sessionRest, last_refresh, warmups, lastAutoAt>>

\* a variant of the test of auto_refresh that fires at exactly `seconds`
AutoDueInclusive(t, last, seconds) == t - last >= seconds

\* (datetime.now() - last).total_seconds() > seconds
AutoDue(t, last, seconds) == t - last > seconds

\* lines 382-395: auto_refresh(refresh_min) at the end of the script
AutoRefresh ==
    /\ pc = "auto"
    /\ IF refresh_min > 0 /\ AutoDue(now, last_refresh, refresh_min)
       THEN /\ last_refresh' = now
            /\ lastAutoAt' = now
            /\ pc' = "init" /\ clicked' = FALSE
       ELSE /\ pc' = "idle"
            /\ UNCHANGED <<last_refresh, lastAutoAt, clicked>>
    /\ calls' = {}
    /\ UNCHANGED <<flaky, now, first_run, opt_symbol, refresh_min, fjCache, wCache, warmups,
                   lastFailAt>>

\* the user moves the refresh slider or clicks Refresh Now: the script runs again
\* (the option-chain symbol is the one the session was opened with)
UserEvent ==
    /\ pc = "idle"
    /\ refresh_min' \in {30, 120}
    /\ clicked' \in BOOLEAN
    /\ pc' = "init"
    /\ calls' = {}
    /\ UNCHANGED <<flaky, now, first_run, opt_symbol, last_refresh, fjCache, wCache, warmups,
                   lastFailAt, lastAutoAt>>

\* time passes while no script runs
Wait ==
    /\ pc = "idle"
    /\ \E d \in {10, 30} :
          /\ now + d <= MaxTime
          /\ now' = now + d
          /\ wCache' = EvictW(wCache, now + d)
          /\ fjCache' = EvictF(fjCache, now + d)
          /\ lastFailAt' = Forget(lastFailAt, now + d)
    /\ calls' = {}
    /\ UNCHANGED <<pc, sessionRest, last_refresh, warmups, lastAutoAt>>

\* the session opens: the script is about to run for the first time
Init ==
    /\ flaky \in {{}} \cup {{e} : e \in Urls \cup {"yfinance"}}
    /\ opt_symbol \in {"NIFTY", "BANKNIFTY"}
    /\ now = 0
    /\ pc = "init"
    /\ first_run = TRUE
    /\ clicked = FALSE
    /\ refresh_min = 120
    /\ last_refresh = -1
    /\ fjCache = [u \in Urls |-> NoEntry]
    /\ wCache = [k \in WKeys |-> NoEntry]
    /\ calls = {}
    /\ warmups = 0
    /\ lastFailAt = [w \in Wrappers |-> -1]
    /\ lastAutoAt = -1
    /\ PageUnused
    /\ df = EmptyTable /\ direction = "long" /\ rr2 = 4
    /\ idx = 1 /\ plans = <<>> /\ planPc = "returned"

Next ==
    \/ RunStart /\ UNCHANGED <<planVars, movVars>>
    \/ Indices /\ UNCHANGED <<planVars, movVars>>
    \/ RefreshNow /\ UNCHANGED <<planVars, movVars>>
    \/ Movers /\ UNCHANGED <<planVars, movVars>>
    \/ Sector /\ UNCHANGED <<planVars, movVars>>
    \/ OptionChain /\ UNCHANGED <<planVars, movVars>>
    \/ Intraday /\ UNCHANGED <<planVars, movVars>>
    \/ AutoRefresh /\ UNCHANGED <<planVars, movVars>>
    \/ UserEvent /\ UNCHANGED <<planVars, movVars>>
    \/ Wait /\ UNCHANGED <<planVars, movVars>>

Spec == Init /\ [][Next]_vars

----------------------------------------------------------------------------
(* Properties of generate_trade_plan *)

\* the input row a plan was built from (symbols are the row numbers)
RowOfPlan(p) == df.rows[p.symbol]

PlanIndices == 1..Len(plans)

\* the exact target of a row with numeric entry e and stop s, in units
ExactTarget(e, s) ==
    IF direction = "long"
    THEN e + ((e - s) * rr2) \div 2
    ELSE e - ((s - e) * rr2) \div 2

\* C1: every plan's target lies at rr times the risk on the other side of the
\* entry: entry + (entry - stop) * rr for "long", entry - (stop - entry) * rr
\* otherwise, from the unrounded entry and stop, then rounded to cents (a NaN
\* entry or stop gives a NaN target); 100 / 98 / rr 2 long gives 104.00 and
\* 100 / dayHigh 102 / rr 2 short gives 96.00.
C1_TargetFormula ==
    \A k \in PlanIndices :
        LET p == plans[k]
            e == EntryCell(df, RowOfPlan(p))
            s == StopCell(df, RowOfPlan(p), direction)
        IN  /\ (IsNum(e) /\ IsNum(s)) =>
                  /\ p.target = Num(RoundCents(ExactTarget(e.v, s.v)))
                  /\ (direction = "long" /\ e = Milli(100000) /\ s = Milli(98000) /\ rr2 = 4)
                        => p.target = Num(10400)
                  /\ (direction = "short" /\ e = Milli(100000) /\ s = Milli(102000) /\ rr2 = 4)
                        => p.target = Num(9600)
            /\ ~(IsNum(e) /\ IsNum(s)) => p.target = NaN

\* a plan whose rounded inputs would give another target than the unrounded ones,
\* and the two examples of the claim
C1_Witness ==
    /\ planPc = "returned"
    /\ \E k \in PlanIndices :
          /\ EntryCell(df, RowOfPlan(plans[k])) = Milli(100004)
          /\ StopCell(df, RowOfPlan(plans[k]), direction) = Milli(98006)
          /\ direction = "long" /\ rr2 = 4
          /\ plans[k].target = Num(10400)

\* C2: no plan is emitted for a row whose risk is not positive (long:
\* entry - stop <= 0, short: stop - entry <= 0).
C2_NoDegeneratePlan ==
    \A k \in PlanIndices :
        LET e == EntryCell(df, RowOfPlan(plans[k]))
            s == StopCell(df, RowOfPlan(plans[k]), direction)
        IN  (IsNum(e) /\ IsNum(s)) =>
                IF direction = "long" THEN e.v - s.v > 0 ELSE s.v - e.v > 0

\* float() accepts the row's entry and stop
Convertible(i) ==
    /\ ~FloatRaises(EntryCell(df, df.rows[i]))
    /\ ~FloatRaises(StopCell(df, df.rows[i], direction))

RECURSIVE ConvertibleUpTo(_)
ConvertibleUpTo(n) ==
    IF n = 0 THEN <<>>
    ELSE IF Convertible(n) THEN Append(ConvertibleUpTo(n - 1), n)
         ELSE ConvertibleUpTo(n - 1)

\* C4: a row whose entry or stop float() refuses is skipped, every other row
\* gives exactly one plan, in input order, and the function never raises.
C4_PerRowIsolation ==
    /\ planPc # "raised"
    /\ [k \in PlanIndices |-> plans[k].symbol] = ConvertibleUpTo(idx - 1)

\* a refused row followed by a row that got its plan
C4_Witness ==
    /\ planPc = "returned"
    /\ Len(df.rows) = 2
    /\ ~Convertible(1)
    /\ Len(plans) = 1 /\ plans[1].symbol = 2

\* C8: with rr_ratio = 0 every plan has target = entry, whatever the stop.
C8_ReflexiveAtZero ==
    rr2 = 0 => \A k \in PlanIndices : plans[k].target = plans[k].entry

----------------------------------------------------------------------------
(* Properties of get_top_movers and of the filters *)

\* the rows of the members table with a defined pChange
Defined == {r \in Range(members.rows) : "pChange" \in members.cols /\ IsNum(r.pChange)}

MinOf(a, b) == IF a < b THEN a ELSE b

\* view is the best (at most n) defined rows, best first
IsView(view, ascending) ==
    /\ Len(view) = MinOf(topN, Cardinality(Defined))
    /\ Range(view) \subseteq Defined
    /\ \A i, j \in 1..Len(view) : i # j => view[i] # view[j]
    /\ \A i \in 1..(Len(view) - 1) :
          IF ascending THEN view[i].pChange.v <= view[i + 1].pChange.v
                       ELSE view[i].pChange.v >= view[i + 1].pChange.v
    /\ \A r \in Defined \ Range(view) : \A w \in Range(view) :
          IF ascending THEN w.pChange.v <= r.pChange.v
                       ELSE w.pChange.v >= r.pChange.v

\* the ranking itself, wherever get_top_movers returns
ViewsWhenReturned ==
    movPc \notin {"call", "raised"} => IsView(gainers, FALSE) /\ IsView(losers, TRUE)

\* C7: for any members table get_top_movers(n) returns the two views: the (at
\* most n) defined rows of largest pChange in descending order and those of
\* smallest pChange in ascending order, undefined rows in neither.
C7_TopMoversViews ==
    /\ movPc # "raised"
    /\ movPc # "call" => IsView(gainers, FALSE) /\ IsView(losers, TRUE)

\* C6: a row handed to generate_trade_plan has abs(pChange) >= min_change and a
\* volume >= min_volume.
C6_BothThresholds ==
    movPc \in {"long", "short"} =>
        \A r \in Range(df.rows) :
            /\ IsNum(r.pChange)
            /\ (r.pChange.v >= min_change \/ r.pChange.v <= -min_change)
            /\ r.totalTradedVolume >= min_volume

\* the percent-change half of the filter alone
PctThresholdOnly ==
    movPc \in {"long", "short"} =>
        \A r \in Range(df.rows) :
            IF movPc = "long" THEN r.pChange.v >= min_change ELSE r.pChange.v <= -min_change

----------------------------------------------------------------------------
(* Properties of the session *)

C5_OneWarmupPerSession ==
    /\ \A c \in calls : c.api <= 1
    /\ warmups <= 1

\* auto_refresh calls st.experimental_rerun() in this step
AutoFired == pc = "auto" /\ pc' = "init"

\* C9: auto_refresh reruns only when strictly more than refresh_min seconds
\* have passed since last_refresh, and sets last_refresh to now as it does; so
\* two auto-triggered reruns in a row lie more than refresh_min apart, and the
\* first run of a session reruns only if it has itself lasted longer than that.
C9_AutoRefreshSpacing ==
    [][AutoFired =>
          /\ now - last_refresh > refresh_min
          /\ last_refresh' = now'
          /\ lastAutoAt >= 0 => now - lastAutoAt > refresh_min
          /\ first_run => now > refresh_min]_vars

\* auto_refresh is about to rerun the script for the second time
C9_Witness ==
    /\ pc = "auto"
    /\ lastAutoAt >= 0
    /\ refresh_min > 0 /\ AutoDue(now, last_refresh, refresh_min)

\* the TTL the claim gives a wrapper: 30 s for the option chain, 60 s otherwise
ClaimedTTL(w) == IF w = "intraday" THEN TTL_FETCH_JSON ELSE TTL(w)

\* a call of wrapper w that falls within the TTL of a failure of w is answered
\* from the cache: the stored empty table, and no request is sent
NotRetried(w) ==
    \A c \in calls' :
        (c.w = w /\ lastFailAt[w] >= 0 /\ now - lastFailAt[w] < ClaimedTTL(w))
            => (c.api = 0 /\ c.warm = 0 /\ c.result = "empty")

\* neither Refresh Now nor an auto-triggered rerun touches the caches
RerunKeepsCaches ==
    (pc \in {"button", "auto"} /\ pc' = "init") => (wCache' = wCache /\ fjCache' = fjCache)

\* C10 as stated: no fetch wrapper, fetch_intraday_yfinance included, sends a
\* new upstream request within the TTL of a failure.
C10_NoRetryAnyWrapper ==
    [][(\A w \in Wrappers : NotRetried(w)) /\ RerunKeepsCaches]_vars

\* C10: a call of a cache-decorated fetch wrapper (get_nifty50_members,
\* get_indices_snapshot, get_sector_performance, get_option_chain_index) within
\* the TTL of a failure returns the stored empty table without a new upstream
\* request, and neither Refresh Now nor an auto-triggered rerun invalidates it.
C10_NoRetryCachedWrappers ==
    [][(\A w \in CachedWrappers : NotRetried(w)) /\ RerunKeepsCaches]_vars

\* the option chain failed less than 30 s ago and is asked for again after a
\* rerun: the call was answered from the cache
C10_Witness ==
    /\ \E c \in calls :
          /\ c.w = OcKey(opt_symbol) /\ c.hit /\ c.result = "empty"
          /\ lastFailAt[c.w] >= 0 /\ now - lastFailAt[c.w] < TTL_OPTION_CHAIN
          /\ now - lastFailAt[c.w] > 0
    /\ last_refresh > 0

====
